---- MODULE Spec2Model ----
(***************************************************************************)
(* Carmate front end: the Streamlit pages of src/src and src/src/pages.    *)
(* One Render action is one script run (render) of one page, triggered by  *)
(* one user action or by the script's own rerun request; Discard is the    *)
(* blank page a run starts from.  st.session_state (token, user,           *)
(* error_log) persists from render to render; the other variables describe *)
(* what the last render did: the HTTP calls it issued, the status branch   *)
(* it entered, what it rendered, which exception escaped it, what its      *)
(* handler appended to the log.                                            *)
(*                                                                         *)
(* Text is a sequence of one-character strings.  A response body is named  *)
(* by its text; JsonOf gives what resp.json() makes of it.                 *)
(*                                                                         *)
(* Spec follows the session to a log of MaxLog entries, DeepSpec to        *)
(* MaxLogDeep entries; FnSpec applies the validators to texts on their     *)
(* own.                                                                    *)
(***************************************************************************)
EXTENDS Integers, Sequences, FiniteSets, TLC

\* ------------------------------------------------------------------ bounds
\* Renders that would leave more than `cap` entries in the log are cut off;
\* cap is MaxLog in Spec.
MaxLog == 1

\* ------------------------------------------------------------------- text
Spaces == {" "}
Digits == {"0", "1", "2", "3", "4", "5", "6", "7", "8", "9"}
Letters == {"a", "b", "c", "x", "A", "B", "I"}

RECURSIVE LStrip(_)
LStrip(s) == IF s # << >> /\ Head(s) \in Spaces THEN LStrip(Tail(s)) ELSE s

RECURSIVE RStrip(_)
RStrip(s) ==
  IF s # << >> /\ s[Len(s)] \in Spaces THEN RStrip(SubSeq(s, 1, Len(s) - 1)) ELSE s

\* str.strip()
Strip(s) == RStrip(LStrip(s))

\* every character of s is in the class [^\s@]
NoSpaceNoAt(s) == \A i \in 1..Len(s) : s[i] \notin Spaces /\ s[i] # "@"

\* re.match(r"^[^\s@]+@[^\s@]+\.[^\s@]+$", s)
EmailRegex(s) ==
  \E i \in 1..Len(s), j \in 1..Len(s) :
    /\ s[i] = "@" /\ s[j] = "."
    /\ 1 < i /\ i + 1 < j /\ j < Len(s)
    /\ NoSpaceNoAt(SubSeq(s, 1, i - 1))
    /\ NoSpaceNoAt(SubSeq(s, i + 1, j - 1))
    /\ NoSpaceNoAt(SubSeq(s, j + 1, Len(s)))

is_valid_email(email) == EmailRegex(Strip(email))

\* re.sub(r"[^\d]", "", phone): the digits of the text
RECURSIVE DigitsOf(_)
DigitsOf(s) ==
  IF s = << >> THEN << >>
  ELSE IF Head(s) \in Digits THEN << Head(s) >> \o DigitsOf(Tail(s))
  ELSE DigitsOf(Tail(s))

is_valid_phone(phone) == 7 <= Len(DigitsOf(phone)) /\ Len(DigitsOf(phone)) <= 15

\* the policy with `if not password` where the code also tests the length
password_policy_no_length(password) ==
  IF password = << >>
    THEN << FALSE, "Password must be at least 8 characters." >>
  ELSE IF ~ \E i \in 1..Len(password) : password[i] \in Letters
    THEN << FALSE, "Password must include at least one letter." >>
  ELSE IF ~ \E i \in 1..Len(password) : password[i] \in Digits
    THEN << FALSE, "Password must include at least one number." >>
  ELSE << TRUE, "" >>

\* password_policy: << ok, reason >>, the first failing rule only
password_policy(password) ==
  IF password = << >> \/ Len(password) < 8
    THEN << FALSE, "Password must be at least 8 characters." >>
  ELSE IF ~ \E i \in 1..Len(password) : password[i] \in Letters
    THEN << FALSE, "Password must include at least one letter." >>
  ELSE IF ~ \E i \in 1..Len(password) : password[i] \in Digits
    THEN << FALSE, "Password must include at least one number." >>
  ELSE << TRUE, "" >>

\* str.lower()
LowerOf(c) ==
  CASE c = "A" -> "a" [] c = "B" -> "b" [] c = "C" -> "c" [] c = "X" -> "x"
    [] c = "I" -> "i" [] OTHER -> c
Lower(s) == [k \in 1..Len(s) |-> LowerOf(s[k])]

\* " | ".join(errors)
RECURSIVE Join(_)
Join(errors) ==
  IF errors = << >> THEN << >>
  ELSE IF Len(errors) = 1 THEN << errors[1] >>
  ELSE << errors[1], " | " >> \o Join(Tail(errors))

\* [m] when cond else []
When(cond, m) == IF cond THEN << m >> ELSE << >>

\* -------------------------------------------------------------- responses
Malformed == [kind |-> "malformed"]
Obj(f) == [kind |-> "obj", f |-> f]
List(v) == [kind |-> "list", v |-> v]
EmptyDict == [kind |-> "obj", f |-> << >>]
EmptyList == [kind |-> "list", v |-> << >>]

FullUser ==
  [id |-> "u1", fullName |-> "n", email |-> "e", phone |-> "p",
   role |-> "customer", isActive |-> TRUE]

\* resp.json(): the parsed body, Malformed when the parser raises
JsonOf(body) ==
  CASE body = "{}" -> EmptyDict
    [] body = "{message}" -> Obj([message |-> "m"])
    [] body = "{token,user}" -> Obj([token |-> "t1", user |-> Obj(FullUser)])
    [] body = "{token}" -> Obj([token |-> "t2"])
    [] body = "{user:{id}}" -> Obj([user |-> Obj([id |-> "u2"])])
    [] body = "[]" -> EmptyList
    [] body = "[user]" ->
         List(<< Obj([id |-> "7", name |-> "n", email |-> "e", is_active |-> TRUE]) >>)
    [] body = "[{}]" -> List(<< EmptyDict >>)
    [] OTHER -> Malformed

\* key in data
Has(data, key) == data.kind = "obj" /\ key \in DOMAIN data.f

\* bool(data)
Truthy(data) ==
  \/ data.kind = "obj" /\ DOMAIN data.f # {}
  \/ data.kind = "list" /\ data.v # << >>

Statuses == {200, 201, 202, 400, 401, 403, 409, 500}
JsonType == "application/json"
TextType == "text/html"

\* resp.headers.get("content-type", "").startswith("application/json")
StartsWithJson(ctype) == ctype = JsonType
\* "application/json" in resp.headers.get("content-type", "")
ContainsJson(ctype) == ctype = JsonType

\* requests raised before any response: connection error, DNS failure, timeout
NoResponse == [kind |-> "transport"]

\* The answers of the backend to one call: no answer at all; a status of `ok`
\* with a JSON content type and each body of `bodies`, or with a text content
\* type and each body of `textBodies`; 400 with a JSON body with and without
\* a message; every other status with a plain-text body.
Responses(ok, bodies, textBodies) ==
  {NoResponse} \cup
  {r \in [kind : {"http"}, status : Statuses, ctype : {JsonType, TextType},
          body : bodies \cup textBodies \cup {"oops", "{}", "{message}"}] :
     \/ r.status \in ok /\ r.ctype = JsonType /\ r.body \in bodies
     \/ r.status \in ok /\ r.ctype = TextType /\ r.body \in textBodies
     \/ r.status = 400 /\ r.ctype = JsonType /\ r.body \in {"{}", "{message}"}
     \/ r.status \notin ok /\ r.ctype = TextType /\ r.body = "oops"}

\* requests.exceptions.JSONDecodeError is a RequestException from requests
\* 2.27 on and a plain ValueError before; which one is installed matters only
\* when a body fails to parse.
Versions(resp) ==
  IF resp.kind = "http" /\ resp.body = "oops" THEN BOOLEAN ELSE {TRUE}

\* -------------------------------------------------------------- session
NoToken == "<absent>"
NoUser == [kind |-> "absent"]

\* a handler that does not write the session key
Keep == "<keep>"
KeepUser == [kind |-> "keep"]

VARIABLES
  token,        \* st.session_state["token"], NoToken when the key is absent
  user,         \* st.session_state["user"], NoUser when the key is absent
  error_log,    \* st.session_state.error_log
  page,         \* the page of the last render
  act,          \* the user action that triggered it
  authAtStart,  \* whether the session held a token when the render started
  httpCalls,    \* outbound HTTP calls issued in the render
  status,       \* status code of the last response obtained, 0 when none
  branch,       \* arm of the status-code chain entered; "TransportFailure"
                \* when the call raised before a response; "none" without call
  rendered,     \* the outcome messages the render put on the page
  escaped,      \* the exception that escaped the page script, "none" if none
  errors,       \* the client-side validation messages of the render
  logged,       \* entries the render's handler appended to error_log
  jsonCalled,   \* whether resp.json() was called in the render
  panel,        \* the debug footer as rendered: [shown, items]
  rerun,        \* the script asked for a rerun, which comes before any user action
  answer,       \* the last response obtained in the render, NoAnswer when none
  sent,         \* the payload of the request the render sent, NoPayload when none
  said,         \* the text of the st.error that reports failed validation
  shown,        \* the document the render passed to st.json, NoJson when none
  timeouts,     \* the timeout argument of each call the render issued, in order
  wrote,        \* the keys of st.session_state, other than error_log, the run assigned
  arg,          \* the text a validator is applied to on its own
  out,          \* the validator applied and what it returned, NoOutput when none
  cap           \* the longest error log the session is followed to

pageVars == << token, user, error_log, page, act, authAtStart, httpCalls, status,
               branch, rendered, escaped, errors, logged, jsonCalled, panel, rerun,
               answer, sent, said, shown, timeouts, wrote >>

vars == << pageVars, arg, out, cap >>

\* log_error / log_bug: one {time, title, details} record; the time stamp is
\* only displayed and is left out
Entry(title, details) == [title |-> title, details |-> details]

NoPanel == [shown |-> FALSE, items |-> << >>]

Reverse(s) == [i \in 1..Len(s) |-> s[Len(s) + 1 - i]]

\* error_log[-5:]
LastFive(log) == SubSeq(log, IF Len(log) > 5 THEN Len(log) - 4 ELSE 1, Len(log))

\* the debug footer: reversed(error_log[-5:])
FooterPanel(log) == [shown |-> TRUE, items |-> Reverse(LastFive(log))]

NoAnswer == [kind |-> "none"]
NoPayload == [kind |-> "none"]
NoJson == [kind |-> "none"]
NoOutput == [fn |-> "none"]

\* the log replaced by the new entries: error_log = [entry] for append
RecordAnew(log, entries) == IF entries = << >> THEN log ELSE entries

\* log_error / log_bug called for each of `entries` in turn:
\* st.session_state.error_log.append(entry)
Record(log, entries) == log \o entries

\* the call was made without a timeout argument
NoTimeout == 0

\* What a handler did: the fields of one render.
Result(calls, st, br, rend, errs, appended, js, esc) ==
  [calls |-> calls, status |-> st, branch |-> br, rendered |-> rend,
   errors |-> errs, appended |-> appended, token |-> Keep, user |-> KeepUser,
   jsonCalled |-> js, escaped |-> esc, rerun |-> FALSE,
   answer |-> NoAnswer, sent |-> NoPayload, said |-> << >>, shown |-> NoJson,
   wrote |-> {}]

\* the result of a handler with the response its last call obtained
Seen(res, resp) ==
  [res EXCEPT !.answer = IF res.calls > 0 /\ resp.kind = "http" THEN resp ELSE NoAnswer]

\* the token reset at the top of the script
IdleFresh ==
  [token |-> NoToken] @@ Result(0, 0, "none", {}, << >>, << >>, FALSE, "none")

\* A render that ran no handler.
Idle ==
  Result(0, 0, "none", {}, << >>, << >>, FALSE, "none")

\* A render an exception escaped from before anything else happened.
Crash(exc) ==
  Result(0, 0, "none", {}, << >>, << >>, FALSE, exc)

\* A render that stopped on client-side validation without logging.
Rejected(errs) ==
  [Result(0, 0, "none", {"ValidationErrors"}, errs, << >>, FALSE, "none")
     EXCEPT !.said = errs]

Init ==
  /\ token = NoToken
  /\ user = NoUser
  /\ error_log = << >>
  /\ page = "none"
  /\ act = "none"
  /\ authAtStart = FALSE
  /\ httpCalls = 0
  /\ status = 0
  /\ branch = "none"
  /\ rendered = {}
  /\ escaped = "none"
  /\ errors = << >>
  /\ logged = 0
  /\ jsonCalled = FALSE
  /\ panel = NoPanel
  /\ rerun = FALSE
  /\ answer = NoAnswer
  /\ sent = NoPayload
  /\ said = << >>
  /\ shown = NoJson
  /\ timeouts = << >>
  /\ wrote = {}
  /\ arg = << >>
  /\ out = NoOutput
  /\ cap = MaxLog

\* The page is blank and the next script run is the user's to choose.
AwaitsUser == page = "none" /\ ~rerun

\* Streamlit runs a page script again from the top, on a user action or on the
\* script's own request: what the last run drew is discarded, st.session_state
\* stays.
Discard ==
  /\ page # "none"
  /\ page' = "none"
  /\ act' = "none"
  /\ authAtStart' = FALSE
  /\ httpCalls' = 0
  /\ status' = 0
  /\ branch' = "none"
  /\ rendered' = {}
  /\ escaped' = "none"
  /\ errors' = << >>
  /\ logged' = 0
  /\ jsonCalled' = FALSE
  /\ panel' = NoPanel
  /\ answer' = NoAnswer
  /\ sent' = NoPayload
  /\ said' = << >>
  /\ shown' = NoJson
  /\ timeouts' = << >>
  /\ wrote' = {}
  /\ UNCHANGED << token, user, error_log, rerun, arg, out, cap >>

\* the timeout argument of the i-th call of a run of page p on action a:
\* requests.post(..., timeout=10) on the login and registration pages, 20 on
\* the service request pages, 30 on the upload page, none on the user listing
CallTimeout(p, a, i) ==
  CASE p \in {"login", "login_copy", "register", "forgot_password", "update_profile"} -> 10
    [] p \in {"service_request", "my_requests"} -> 20
    [] p = "upload" -> 30
    [] OTHER -> NoTimeout

\* The state after the run of page p's script on action a: `pre` is what the
\* script appended before its handler ran, `res` the handler's result, `pnl`
\* the footer it drew, `log` the log it left.
Render(p, a, pre, res, pnl, log) ==
  /\ Len(log) <= cap
  /\ page' = p
  /\ act' = a
  /\ authAtStart' = (token # NoToken)
  /\ token' = (IF res.token = Keep THEN token ELSE res.token)
  /\ user' = (IF res.user = KeepUser THEN user ELSE res.user)
  /\ error_log' = log
  /\ httpCalls' = res.calls
  /\ status' = res.status
  /\ branch' = res.branch
  /\ rendered' = res.rendered
  /\ escaped' = res.escaped
  /\ errors' = res.errors
  /\ logged' = Len(res.appended)
  /\ jsonCalled' = res.jsonCalled
  /\ panel' = pnl
  /\ rerun' = res.rerun
  /\ answer' = res.answer
  /\ sent' = res.sent
  /\ said' = res.said
  /\ shown' = res.shown
  /\ timeouts' = [i \in 1..res.calls |-> CallTimeout(p, a, i)]
  /\ wrote' = res.wrote \cup (IF res.token = Keep THEN {} ELSE {"token"})
                        \cup (IF res.user = KeepUser THEN {} ELSE {"user"})
  /\ UNCHANGED << arg, out, cap >>

\* ------------------------------------------------ pages/login.py: login
Emails == { << >>, <<"a", "b">>, <<"a", "@", "b", ".", "c">> }
Passwords == { << >>, <<"p", "w">> }

\* the chain with `>= 400` where the code compares with 400
LoginBranchFrom400(st) ==
  IF st \in {200, 201} THEN "Success"
  ELSE IF st \in {401, 403} THEN "AuthFailure"
  ELSE IF st >= 400 THEN "ValidationFailure"
  ELSE "ServerError"

\* the if/elif chain on resp.status_code
LoginBranch(st) ==
  IF st \in {200, 201} THEN "Success"
  ELSE IF st \in {401, 403} THEN "AuthFailure"
  ELSE IF st = 400 THEN "ValidationFailure"
  ELSE "ServerError"

\* the token written or dropped, whatever the answer holds
StoreTokenOrDrop(data) == IF Has(data, "token") THEN data.f.token ELSE NoToken

\* if "token" in data: st.session_state["token"] = data["token"]
StoreToken(data) == IF Has(data, "token") THEN data.f.token ELSE Keep

\* if "user" in data: st.session_state["user"] = data["user"]
StoreUser(data) == IF Has(data, "user") THEN data.f.user ELSE KeepUser

\* backend_msg of a 400: resp.json().get("message", "Bad Request"), resp.text
\* when that raises (no JSON, or JSON that is no object)
BackendMsg(resp) ==
  LET data == JsonOf(resp.body) IN
  IF data.kind # "obj" THEN resp.body
  ELSE IF "message" \in DOMAIN data.f THEN data.f.message
  ELSE "Bad Request"

\* the except clauses around the request, for a resp.json() that raised
LoginJsonError(resp, isReqEx) ==
  IF isReqEx THEN
    Result(1, resp.status, "Success", {"TransportFailure"}, << >>,
           << Entry("Backend connection error", <<"ex">>) >>, TRUE, "none")
  ELSE
    Result(1, resp.status, "Success", {"Exception"}, << >>,
           << Entry("Frontend exception", <<"traceback">>) >>, TRUE, "none")

\* the try block: one POST to LOGIN_URL and the handling of its answer
LoginRequest(resp, isReqEx) ==
  IF resp.kind = "transport" THEN
    Result(1, 0, "TransportFailure", {"TransportFailure"}, << >>,
           << Entry("Backend connection error", <<"ex">>) >>, FALSE, "none")
  ELSE IF LoginBranch(resp.status) = "Success" THEN
    IF StartsWithJson(resp.ctype) /\ JsonOf(resp.body) = Malformed THEN
      LoginJsonError(resp, isReqEx)
    ELSE
      LET data == IF StartsWithJson(resp.ctype) THEN JsonOf(resp.body) ELSE EmptyDict IN
      [Result(1, resp.status, "Success", {"Success"}, << >>, << >>,
              StartsWithJson(resp.ctype), "none")
         EXCEPT !.token = StoreToken(data), !.user = StoreUser(data)]
  ELSE IF LoginBranch(resp.status) = "AuthFailure" THEN
    Result(1, resp.status, "AuthFailure", {"AuthFailure"}, << >>,
           << Entry("Login failed (auth)", << resp.body >>) >>, FALSE, "none")
  ELSE IF LoginBranch(resp.status) = "ValidationFailure" THEN
    Result(1, resp.status, "ValidationFailure", {"ValidationFailure"}, << >>,
           << Entry("Login failed (400)", << BackendMsg(resp) >>) >>, TRUE, "none")
  ELSE
    Result(1, resp.status, "ServerError", {"ServerError"}, << >>,
           << Entry("Login server error " \o ToString(resp.status), << resp.body >>) >>,
           FALSE, "none")

\* the client-side rules of the login form
LoginErrors(email, password) ==
  When(~is_valid_email(email), "Please enter a valid email address.")
  \o When(password = << >>, "Password is required.")

\* the request made without the `else`: the errors are shown and the POST
\* goes out all the same
LoginSubmitNoElse(email, password, resp, isReqEx) ==
  [LoginRequest(resp, isReqEx) EXCEPT !.errors = LoginErrors(email, password)]

\* if submitted: validate, then request
LoginSubmit(email, password, resp, isReqEx) ==
  LET errs == LoginErrors(email, password) IN
  IF errs # << >> THEN
    [Result(0, 0, "none", {"ValidationErrors"}, errs,
            << Entry("Login form validation", Join(errs)) >>, FALSE, "none")
       EXCEPT !.said = Join(errs)]
  ELSE LoginRequest(resp, isReqEx)

LoginResponses ==
  Responses({200, 201}, {"oops", "{}", "{token,user}", "{token}"}, {"oops", "{token}"})

\* the answers drawn for a form: none for a form the page rejects
LoginAnswers(email, password) ==
  IF LoginErrors(email, password) = << >> THEN LoginResponses ELSE {NoResponse}

\* the logo check at the top of the script: resources/logo.png beside the
\* script may or may not be there
LogoCheck(logoExists) ==
  IF logoExists THEN << >> ELSE << Entry("Logo missing", <<"logo.png">>) >>

\* what a submit of the login form can do, over the forms and the answers
LoginRuns ==
  UNION { UNION { { Seen(LoginSubmit(f[1], f[2], resp, isReqEx), resp) : isReqEx \in Versions(resp) } :
                  resp \in LoginAnswers(f[1], f[2]) } :
          f \in Emails \X Passwords }

\* One render of pages/login.py (this page draws no debug footer).
RenderLogin ==
  /\ AwaitsUser
  /\ \E logoExists \in BOOLEAN :
       LET pre == LogoCheck(logoExists) IN
       \/ Render("login", "open", pre, Idle, NoPanel, Record(error_log, pre))
       \/ \E res \in LoginRuns :
            Render("login", "submit", pre, res, NoPanel, Record(Record(error_log, pre), res.appended))

\* ---------------------- pages/register.py: the second copy of the login page
\* the popover's "Send reset link" button
ForgotPopover(fp_email, resp) ==
  IF ~is_valid_email(fp_email) THEN
    [Result(0, 0, "none", {"ValidationErrors"}, <<"Please enter a valid email.">>,
            << Entry("Forgot password validation", fp_email) >>, FALSE, "none")
       EXCEPT !.said = <<"Please enter a valid email.">>]
  ELSE IF resp.kind = "transport" THEN
    Result(1, 0, "TransportFailure", {"TransportFailure"}, << >>,
           << Entry("Forgot password connection error", <<"ex">>) >>,
           FALSE, "none")
  ELSE IF resp.status \in {200, 201, 202} THEN
    Result(1, resp.status, "Success", {"Success"}, << >>, << >>, FALSE, "none")
  ELSE
    Result(1, resp.status, "ServerError", {"ServerError"}, << >>,
           << Entry("Forgot password API error", << resp.body >>) >>,
           FALSE, "none")

ForgotResponses == Responses({200, 201, 202}, {"{}"}, {"oops"})

ForgotAnswers(fp_email) ==
  IF is_valid_email(fp_email) THEN ForgotResponses ELSE {NoResponse}

\* what a click on "Send reset link" can do
ForgotRuns ==
  UNION { { Seen(ForgotPopover(fp_email, resp), resp) : resp \in ForgotAnswers(fp_email) } :
          fp_email \in Emails }

\* One render of pages/register.py: logo check, login form, forgot-password
\* popover, then the footer.
RenderLoginCopy ==
  /\ AwaitsUser
  /\ \E logoExists \in BOOLEAN :
       LET pre == LogoCheck(logoExists) IN
       \/ Render("login_copy", "open", pre, Idle,
                 FooterPanel(Record(error_log, pre)), Record(error_log, pre))
       \/ \E res \in LoginRuns :
            LET log == Record(Record(error_log, pre), res.appended) IN
            Render("login_copy", "submit", pre, res, FooterPanel(log), log)
       \/ \E res \in ForgotRuns :
            LET log == Record(Record(error_log, pre), res.appended) IN
            Render("login_copy", "send", pre, res, FooterPanel(log), log)

\* ------------------------------------------------ register.py: registration
\* the registration form: text fields and the role select box
Form(full_name, email, phone, password, confirm_password, role) ==
  [full_name |-> full_name, email |-> email, phone |-> phone,
   password |-> password, confirm_password |-> confirm_password, role |-> role]

GoodEmail == <<"a", "@", "b", ".", "c">>
GoodPhone == <<"+", "1", " ", "5", "5", "5", "-", "1", "2", "3", "4">>
GoodPassword == <<"a", "b", "c", "a", "b", "c", "1", "2">>

RegisterForms ==
  { Form(<<"a", "b">>, GoodEmail, GoodPhone, GoodPassword, GoodPassword, "customer"),
    Form(<<" ", "a", "b", " ">>, <<" ", "A", "@", "b", ".", "c">>, <<" ">> \o GoodPhone,
         GoodPassword, GoodPassword, "provider"),
    Form(<<"a", "b">>, GoodEmail, GoodPhone, <<"a", "1">>, <<"a", "1">>, "provider"),
    Form(<<" ", "a">>, <<"a", "b">>, <<"5", "5", "5">>, GoodPassword, <<"a">>, "customer") }

\* the client-side rules of the registration form
RegisterErrors(f) ==
  When(f.full_name = << >> \/ Len(Strip(f.full_name)) < 2,
       "Full name is required (at least 2 characters).")
  \o When(~is_valid_email(f.email), "Please enter a valid email address.")
  \o When(~is_valid_phone(f.phone), "Please enter a valid phone number (7-15 digits).")
  \o When(~password_policy(f.password)[1], password_policy(f.password)[2])
  \o When(f.password # f.confirm_password, "Passwords do not match.")

\* the if/elif chain on resp.status_code
RegisterBranch(st) ==
  IF st = 201 THEN "Success"
  ELSE IF st = 409 THEN "Conflict"
  ELSE IF st = 400 THEN "ValidationFailure"
  ELSE "ServerError"

UserKeys == {"id", "fullName", "email", "phone", "role", "isActive"}

\* data["user"]["id"] ... data["user"]["isActive"] can all be read
HasUserFields(data, keys) ==
  /\ Has(data, "user")
  /\ data.f.user.kind = "obj"
  /\ keys \subseteq DOMAIN data.f.user.f

\* the 201 arm: resp.json(), st.success, then the st.json of the user's
\* fields; what raises on the way lands in one of the except clauses
RegisterSuccess(resp, isReqEx) ==
  LET data == JsonOf(resp.body) IN
  IF data = Malformed THEN
    IF isReqEx THEN
      Result(1, resp.status, "Success", {"TransportFailure"}, << >>,
             << Entry("Backend connection error", <<"ex">>) >>, TRUE, "none")
    ELSE
      Result(1, resp.status, "Success", {"Exception"}, << >>,
             << Entry("Frontend exception", <<"ex", "traceback">>) >>,
             TRUE, "none")
  ELSE IF ~HasUserFields(data, UserKeys) THEN
    Result(1, resp.status, "Success", {"Success", "Exception"}, << >>,
           << Entry("Frontend exception", <<"ex", "traceback">>) >>, TRUE, "none")
  ELSE
    [Result(1, resp.status, "Success", {"Success"}, << >>, << >>, TRUE, "none")
       EXCEPT !.shown = Obj([k \in UserKeys |-> data.f.user.f[k]])]

\* the try block: one POST to REGISTER_URL and the handling of its answer
RegisterRequest(resp, isReqEx) ==
  IF resp.kind = "transport" THEN
    Result(1, 0, "TransportFailure", {"TransportFailure"}, << >>,
           << Entry("Backend connection error", <<"ex">>) >>, FALSE, "none")
  ELSE IF RegisterBranch(resp.status) = "Success" THEN
    RegisterSuccess(resp, isReqEx)
  ELSE IF RegisterBranch(resp.status) = "Conflict" THEN
    Result(1, resp.status, "Conflict", {"Conflict"}, << >>,
           << Entry("Duplicate email (409)", << resp.body >>) >>, FALSE, "none")
  ELSE IF RegisterBranch(resp.status) = "ValidationFailure" THEN
    Result(1, resp.status, "ValidationFailure", {"ValidationFailure"}, << >>,
           << Entry("Backend validation error (400)", << BackendMsg(resp) >>) >>,
           TRUE, "none")
  ELSE
    Result(1, resp.status, "ServerError", {"ServerError"}, << >>,
           << Entry("Unexpected server status " \o ToString(resp.status),
                    << resp.body >>) >>,
           FALSE, "none")

\* payload = {...}: the JSON body of the POST
RegisterPayload(f) ==
  [kind |-> "register", fullName |-> Strip(f.full_name),
   email |-> Lower(Strip(f.email)), phone |-> Strip(f.phone),
   password |-> f.password, role |-> f.role]

\* if submitted: validate, then request
RegisterSubmit(f, resp, isReqEx) ==
  LET errs == RegisterErrors(f) IN
  IF errs # << >> THEN
    [Result(0, 0, "none", {"ValidationErrors"}, errs,
            << Entry("Form validation failed", Join(errs)) >>, FALSE, "none")
       EXCEPT !.said = <<"Please fix the form errors above.">>]
  ELSE [RegisterRequest(resp, isReqEx) EXCEPT !.sent = RegisterPayload(f)]

RegisterResponses ==
  Responses({201}, {"oops", "{}", "{token,user}", "{user:{id}}"}, {"oops", "{token,user}"})

RegisterAnswers(f) ==
  IF RegisterErrors(f) = << >> THEN RegisterResponses ELSE {NoResponse}

\* what a submit of the registration form can do
RegisterRuns ==
  UNION { UNION { { Seen(RegisterSubmit(f, resp, isReqEx), resp) : isReqEx \in Versions(resp) } :
                  resp \in RegisterAnswers(f) } :
          f \in RegisterForms }

\* One render of register.py: the form and its handler, then the debug
\* footer, then the "Clear Debug Footer Log" button below it.
RenderRegister ==
  /\ AwaitsUser
  /\ \/ Render("register", "open", << >>, Idle,
               FooterPanel(error_log), error_log)
     \/ \E res \in RegisterRuns :
          LET log == Record(error_log, res.appended) IN
          Render("register", "submit", << >>, res, FooterPanel(log), log)
     \/ Render("register", "clear", << >>,
               Result(0, 0, "none", {"Cleared"}, << >>, << >>, FALSE, "none"),
               FooterPanel(error_log), << >>)

\* ------------------------------------- pages/forgot_password.py: password reset
\* if send_btn: `not fp_email or not is_valid_email(fp_email)` reads
\* is_valid_email, which the script defines only further down (and with `re`,
\* which it never imports): an empty email is rejected before the name is
\* read, any other raises NameError outside every try
ForgotSubmit(fp_email) ==
  IF fp_email = << >>
    THEN Rejected(<<"Please enter a valid email address.">>)
    ELSE Crash("NameError")

\* One render of pages/forgot_password.py.
RenderForgotPassword ==
  /\ AwaitsUser
  /\ \/ Render("forgot_password", "open", << >>, Idle, NoPanel, error_log)
     \/ \E res \in { ForgotSubmit(fp_email) : fp_email \in Emails } :
          Render("forgot_password", "submit", << >>, res, NoPanel, error_log)

\* ------------------------------------- pages/update_profile.py: profile update
\* BASE_DIR = Path(__file__)...: the script never imports Path, so every run
\* raises NameError here, before the form is drawn: there is never a form to
\* submit
UpdateProfileScript == Crash("NameError")

\* One render of pages/update_profile.py.
RenderUpdateProfile ==
  /\ AwaitsUser
  /\ Render("update_profile", "open", << >>, UpdateProfileScript,
            NoPanel, error_log)

\* ------------------------- pages/upload_vechile_photos.py: photo upload
\* the check for an empty token instead of an absent one
UploadAuthStopOnEmpty(tok) == tok = ""

\* if "token" not in st.session_state: warning, st.stop()
UploadAuthStop(tok) == tok = NoToken

\* A render halted at the login guard.
Redirected == Result(0, 0, "none", {"Redirected"}, << >>, << >>, FALSE, "none")

\* the if/elif chain on response.status_code
UploadBranch(st) ==
  IF st \in {200, 201} THEN "Success"
  ELSE IF st = 400 THEN "ValidationFailure"
  ELSE IF st \in {401, 403} THEN "AuthFailure"
  ELSE "ServerError"

\* if st.button("Upload Photos"): the two checks that stop the script, then
\* one POST inside try / except Exception; nothing here writes the error log
UploadClick(request_id, nfiles, resp) ==
  IF request_id = << >> THEN Rejected(<<"Service Request ID is required.">>)
  ELSE IF nfiles = 0 THEN Rejected(<<"Please select at least one photo.">>)
  ELSE IF resp.kind = "transport" THEN
    Result(1, 0, "TransportFailure", {"Exception"}, << >>, << >>, FALSE, "none")
  ELSE IF UploadBranch(resp.status) = "Success" THEN
    Result(1, resp.status, "Success",
           IF JsonOf(resp.body) = Malformed THEN {"Success", "Exception"} ELSE {"Success"},
           << >>, << >>, TRUE, "none")
  ELSE
    Result(1, resp.status, UploadBranch(resp.status), {UploadBranch(resp.status)},
           << >>, << >>, FALSE, "none")

UploadResponses == Responses({200, 201}, {"oops", "{}"}, {"oops", "{}"})

UploadAnswers(request_id, nfiles) ==
  IF request_id # << >> /\ nfiles > 0 THEN UploadResponses ELSE {NoResponse}

UploadRuns ==
  UNION { { Seen(UploadClick(i[1], i[2], resp), resp) : resp \in UploadAnswers(i[1], i[2]) } :
          i \in { << >>, <<"7">> } \X {0, 1} }

\* One render of pages/upload_vechile_photos.py.
RenderUpload ==
  /\ AwaitsUser
  /\ IF UploadAuthStop(token) THEN
       \E a \in {"open", "upload", "go_login"} :
         Render("upload", a, << >>, Redirected, NoPanel, error_log)
     ELSE
       \/ Render("upload", "open", << >>, Idle, NoPanel, error_log)
       \/ \E res \in UploadRuns :
            Render("upload", "upload", << >>, res, NoPanel, error_log)

\* ------------------------------------------------ ui_helpers (not in src/)
\* require_login(): halts the page when the session holds no token
RequireLoginStops(tok) == tok = NoToken

\* log_bug(title, details): appends one entry to the error log
LogBug(title, details) == << Entry(title, details) >>

\* render_footer_bug_panel(): the most recent five entries, newest first
RenderFooterBugPanel(log) == FooterPanel(log)

\* ------------------------------- pages/service_request.py: create a request
\* date.today().year
ThisYear == 2026

valid_year(y) == 1980 <= y /\ y <= ThisYear + 1

\* str.upper()
UpperOf(c) ==
  CASE c = "a" -> "A" [] c = "b" -> "B" [] c = "c" -> "C" [] c = "x" -> "X"
    [] c = "i" -> "I" [] OTHER -> c
Upper(s) == [k \in 1..Len(s) |-> UpperOf(s[k])]

\* the class [A-HJ-NPR-Z0-9]
VinAlphabet ==
  Digits \cup {"A", "B", "C", "D", "E", "F", "G", "H", "J", "K", "L", "M", "N",
               "P", "R", "S", "T", "U", "V", "W", "X", "Y", "Z"}

\* the pattern with {11,} where the code has {11,17}
valid_vin_unbounded(v) ==
  LET u == Upper(Strip(v)) IN
  \/ u = << >>
  \/ /\ 11 <= Len(u)
     /\ \A k \in 1..Len(u) : u[k] \in VinAlphabet

\* valid_vin: v.strip().upper() is empty or matches ^[A-HJ-NPR-Z0-9]{11,17}$
valid_vin(v) ==
  LET u == Upper(Strip(v)) IN
  \/ u = << >>
  \/ /\ 11 <= Len(u) /\ Len(u) <= 17
     /\ \A k \in 1..Len(u) : u[k] \in VinAlphabet

\* the validated fields of the form, and the number of photos
RequestForm(make, model, year, vin, symptoms, location, photos) ==
  [make |-> make, model |-> model, year |-> year, vin |-> vin,
   symptoms |-> symptoms, location |-> location, photos |-> photos]

GoodVin == <<"1", "a", "b", "c", "x", "8", "2", "6", "3", "3", "a">>
GoodSymptoms == <<"a", " ", "b", "a", "b", "a", "b", "a", " ", "c">>

RequestForms ==
  { RequestForm(<<"a", "b">>, <<"x">>, ThisYear, << >>, GoodSymptoms, <<"a", "b">>, 0),
    RequestForm(<<" ", "a", "b">>, <<"x", " ">>, ThisYear + 1, <<" ">> \o GoodVin \o <<" ">>,
                <<" ">> \o GoodSymptoms, <<"a", "b", " ">>, 1),
    RequestForm(<<"a", "b">>, <<"x">>, 1980, GoodVin, GoodSymptoms, <<"a", "b">>, 1),
    RequestForm(<<"a">>, <<"x">>, ThisYear + 1, << >>, GoodSymptoms, <<"a", "b">>, 0),
    RequestForm(<<"a", "b">>, << >>, ThisYear, <<"a", "I", "1">>, <<"a", "b">>, <<" ">>, 1) }

\* the rules with `if not make` where the code also tests the length
RequestErrorsAnyMake(f) ==
  When(f.make = << >>, "Make is required.")
  \o When(f.model = << >> \/ Len(Strip(f.model)) < 1, "Model is required.")
  \o When(~valid_year(f.year), "Year looks invalid.")
  \o When(f.symptoms = << >> \/ Len(Strip(f.symptoms)) < 10,
          "Please describe the issue (at least ~10 characters).")
  \o When(f.location = << >> \/ Len(Strip(f.location)) < 2, "Location is required.")
  \o When(~valid_vin(f.vin),
          "VIN format looks invalid (optional field, but if filled it must be valid).")

\* the client-side rules of the service request form
RequestErrors(f) ==
  When(f.make = << >> \/ Len(Strip(f.make)) < 2, "Make is required.")
  \o When(f.model = << >> \/ Len(Strip(f.model)) < 1, "Model is required.")
  \o When(~valid_year(f.year), "Year looks invalid.")
  \o When(f.symptoms = << >> \/ Len(Strip(f.symptoms)) < 10,
          "Please describe the issue (at least ~10 characters).")
  \o When(f.location = << >> \/ Len(Strip(f.location)) < 2, "Location is required.")
  \o When(~valid_vin(f.vin),
          "VIN format looks invalid (optional field, but if filled it must be valid).")

\* the if/elif chain on resp.status_code
RequestBranch(st) ==
  IF st \in {200, 201} THEN "Success"
  ELSE IF st = 400 THEN "ValidationFailure"
  ELSE IF st \in {401, 403} THEN "AuthFailure"
  ELSE "ServerError"

\* the two posts in sequence instead of in the arms of if / else
RequestPostsBoth(photos) == IF photos > 0 THEN 2 ELSE 1

\* requests.post calls of the try block: a multipart POST when there are
\* photos, a JSON POST when there are none
RequestPosts(photos) == IF photos > 0 THEN 1 ELSE 1

\* the try block: the POST to CREATE_REQUEST_URL and the handling of its answer
RequestSend(photos, resp, isReqEx) ==
  LET n == RequestPosts(photos) IN
  IF resp.kind = "transport" THEN
    Result(n, 0, "TransportFailure", {"TransportFailure"}, << >>,
           LogBug("Create request connection error", <<"ex">>), FALSE, "none")
  ELSE IF RequestBranch(resp.status) = "Success" THEN
    IF ContainsJson(resp.ctype) /\ JsonOf(resp.body) = Malformed THEN
      IF isReqEx THEN
        Result(n, resp.status, "Success", {"TransportFailure"}, << >>,
               LogBug("Create request connection error", <<"ex">>), TRUE, "none")
      ELSE
        Result(n, resp.status, "Success", {"Exception"}, << >>,
               LogBug("Create request exception", <<"traceback">>), TRUE, "none")
    ELSE
      Result(n, resp.status, "Success", {"Success"}, << >>, << >>,
             ContainsJson(resp.ctype), "none")
  ELSE IF RequestBranch(resp.status) = "ValidationFailure" THEN
    Result(n, resp.status, "ValidationFailure", {"ValidationFailure"}, << >>,
           LogBug("Create request (400)", << BackendMsg(resp) >>), TRUE, "none")
  ELSE IF RequestBranch(resp.status) = "AuthFailure" THEN
    Result(n, resp.status, "AuthFailure", {"AuthFailure"}, << >>,
           LogBug("Create request (auth)", << resp.body >>), FALSE, "none")
  ELSE
    Result(n, resp.status, "ServerError", {"ServerError"}, << >>,
           LogBug("Create request server error " \o ToString(resp.status),
                  << resp.body >>),
           FALSE, "none")

\* payload = {...}: the fields the rules are about; sent as JSON without
\* photos and as str(payload) in a multipart form with photos
RequestPayload(f) ==
  [kind |-> "service_request", make |-> Strip(f.make), model |-> Strip(f.model),
   year |-> f.year, vin |-> IF f.vin # << >> THEN Upper(Strip(f.vin)) ELSE << >>,
   symptoms |-> Strip(f.symptoms), location |-> Strip(f.location)]

\* if submitted: validate, then request
RequestSubmit(f, resp, isReqEx) ==
  LET errs == RequestErrors(f) IN
  IF errs # << >> THEN
    [Result(0, 0, "none", {"ValidationErrors"}, errs,
            LogBug("Service request validation", Join(errs)), FALSE, "none")
       EXCEPT !.said = Join(errs)]
  ELSE [RequestSend(f.photos, resp, isReqEx) EXCEPT !.sent = RequestPayload(f)]

RequestResponses == Responses({200, 201}, {"oops", "{}"}, {"oops"})

RequestAnswers(f) ==
  IF RequestErrors(f) = << >> THEN RequestResponses ELSE {NoResponse}

RequestRuns ==
  UNION { UNION { { Seen(RequestSubmit(f, resp, isReqEx), resp) : isReqEx \in Versions(resp) } :
                  resp \in RequestAnswers(f) } :
          f \in RequestForms }

\* One render of pages/service_request.py.
RenderServiceRequest ==
  /\ AwaitsUser
  /\ IF RequireLoginStops(token) THEN
       \E a \in {"open", "submit"} :
         Render("service_request", a, << >>, Redirected, NoPanel, error_log)
     ELSE
       \/ Render("service_request", "open", << >>, Idle,
                 RenderFooterBugPanel(error_log), error_log)
       \/ \E res \in RequestRuns :
            LET log == Record(error_log, res.appended) IN
            Render("service_request", "submit", << >>, res, RenderFooterBugPanel(log), log)

\* ------------------------------------ pages/my_request.py: the user's requests
\* the if/elif chain on resp.status_code
MyRequestsBranch(st) ==
  IF st = 200 THEN "Success"
  ELSE IF st \in {401, 403} THEN "AuthFailure"
  ELSE "ServerError"

\* the script's try block: one GET of MY_REQUESTS_URL on every render, and
\* the handling of its answer
MyRequestsLoad(resp, isReqEx) ==
  IF resp.kind = "transport" THEN
    Result(1, 0, "TransportFailure", {"TransportFailure"}, << >>,
           LogBug("My requests connection", <<"ex">>), FALSE, "none")
  ELSE IF MyRequestsBranch(resp.status) = "Success" THEN
    LET items == IF ContainsJson(resp.ctype) THEN JsonOf(resp.body) ELSE EmptyList IN
    IF items = Malformed THEN
      IF isReqEx THEN
        Result(1, resp.status, "Success", {"TransportFailure"}, << >>,
               LogBug("My requests connection", <<"ex">>), TRUE, "none")
      ELSE
        Result(1, resp.status, "Success", {"Exception"}, << >>,
               LogBug("My requests exception", <<"traceback">>), TRUE, "none")
    ELSE IF Truthy(items) /\ items.kind = "obj" THEN
      \* `for r in items` walks the keys of a dict: r.get raises AttributeError
      Result(1, resp.status, "Success", {"Exception"}, << >>,
             LogBug("My requests exception", <<"traceback">>), TRUE, "none")
    ELSE
      Result(1, resp.status, "Success", {"Success"}, << >>, << >>,
             ContainsJson(resp.ctype), "none")
  ELSE IF MyRequestsBranch(resp.status) = "AuthFailure" THEN
    Result(1, resp.status, "AuthFailure", {"AuthFailure"}, << >>,
           LogBug("My requests auth", << resp.body >>), FALSE, "none")
  ELSE
    Result(1, resp.status, "ServerError", {"ServerError"}, << >>,
           LogBug("My requests server", << resp.body >>), FALSE, "none")

MyRequestsResponses == Responses({200}, {"oops", "[]", "[user]", "{message}"}, {"oops"})

\* a click on "View Details" of a listed request: the run loads the list
\* again, the button stores the request's id and switches to
\* pages/request_details.py; switch_page raises StreamlitAPIException inside
\* the try block when that page is not there
MyRequestsView(pageExists) ==
  IF pageExists THEN
    [Result(1, 200, "Success", {"Success"}, << >>, << >>, TRUE, "none")
       EXCEPT !.wrote = {"selected_request_id"}]
  ELSE
    [Result(1, 200, "Success", {"Success", "Exception"}, << >>,
            LogBug("My requests exception", <<"traceback">>), TRUE, "none")
       EXCEPT !.wrote = {"selected_request_id"}]

\* the answers that list a request
ListingResponses ==
  { r \in MyRequestsResponses :
      r.kind = "http" /\ r.status = 200 /\ ContainsJson(r.ctype) /\ r.body = "[user]" }

MyRequestsViewRuns ==
  UNION { { Seen(MyRequestsView(pageExists), resp) : pageExists \in BOOLEAN } :
          resp \in ListingResponses }

MyRequestsRuns ==
  UNION { { Seen(MyRequestsLoad(resp, isReqEx), resp) : isReqEx \in Versions(resp) } :
          resp \in MyRequestsResponses }

\* One render of pages/my_request.py.
RenderMyRequests ==
  /\ AwaitsUser
  /\ IF RequireLoginStops(token) THEN
       Render("my_requests", "open", << >>, Redirected, NoPanel, error_log)
     ELSE
       \/ \E res \in MyRequestsRuns :
            LET log == Record(error_log, res.appended) IN
            Render("my_requests", "open", << >>, res, RenderFooterBugPanel(log), log)
       \/ \E res \in MyRequestsViewRuns :
            LET log == Record(error_log, res.appended) IN
            Render("my_requests", "view", << >>, res,
                   IF res.appended = << >> THEN NoPanel ELSE RenderFooterBugPanel(log), log)

\* ------------------- pages/view_users_registration.py: the registered users
\* fetch_users(): one GET with only RequestException caught;
\* [users, rendered, escaped, status, branch]
fetch_users(resp, isReqEx) ==
  IF resp.kind = "transport" THEN
    [users |-> EmptyList, rendered |-> {"TransportFailure"}, escaped |-> "none",
     status |-> 0, branch |-> "TransportFailure", json |-> FALSE]
  ELSE IF resp.status = 200 THEN
    IF JsonOf(resp.body) = Malformed THEN
      IF isReqEx THEN
        [users |-> EmptyList, rendered |-> {"TransportFailure"}, escaped |-> "none",
         status |-> 200, branch |-> "Success", json |-> TRUE]
      ELSE
        [users |-> EmptyList, rendered |-> {}, escaped |-> "ValueError",
         status |-> 200, branch |-> "Success", json |-> TRUE]
    ELSE
      [users |-> JsonOf(resp.body), rendered |-> {}, escaped |-> "none",
       status |-> 200, branch |-> "Success", json |-> TRUE]
  ELSE
    [users |-> EmptyList, rendered |-> {"ServerError"}, escaped |-> "none",
     status |-> resp.status, branch |-> "ServerError", json |-> FALSE]

\* toggle_user_status(user_id): one POST with only RequestException caught;
\* a truthy result is followed by st.success and a rerun
toggle_user_status(resp, isReqEx) ==
  IF resp.kind = "transport" THEN
    [rendered |-> {"TransportFailure"}, escaped |-> "none",
     status |-> 0, branch |-> "TransportFailure", json |-> FALSE]
  ELSE IF resp.status = 200 THEN
    IF JsonOf(resp.body) = Malformed THEN
      IF isReqEx THEN
        [rendered |-> {"TransportFailure"}, escaped |-> "none",
         status |-> 200, branch |-> "Success", json |-> TRUE]
      ELSE
        [rendered |-> {}, escaped |-> "ValueError",
         status |-> 200, branch |-> "Success", json |-> TRUE]
    ELSE
      [rendered |-> IF Truthy(JsonOf(resp.body)) THEN {"Success"} ELSE {},
       escaped |-> "none", status |-> 200, branch |-> "Success", json |-> TRUE]
  ELSE
    [rendered |-> {"ServerError"}, escaped |-> "none",
     status |-> resp.status, branch |-> "ServerError", json |-> FALSE]

\* what reading user['name'], user['email'], user['is_active'], user['id']
\* of the first listed user raises
ListingError(users) ==
  IF users.kind = "obj" THEN "TypeError"
  ELSE IF ~ {"name", "email", "is_active", "id"} \subseteq DOMAIN users.v[1].f
    THEN "KeyError"
  ELSE "none"

\* the script: fetch, list, and the toggle button of a listed user when it
\* was the one clicked; st.experimental_rerun() after a truthy result exists
\* up to Streamlit 1.36 and is an AttributeError from 1.37 on
ViewUsers(fetch, clicked, toggle, isReqEx, canRerun) ==
  LET got == fetch_users(fetch, isReqEx) IN
  IF got.escaped # "none" \/ ~Truthy(got.users) THEN
    Result(1, got.status, got.branch, got.rendered, << >>, << >>, got.json, got.escaped)
  ELSE IF ListingError(got.users) # "none" THEN
    Result(1, got.status, got.branch, got.rendered, << >>, << >>, got.json,
           ListingError(got.users))
  ELSE IF ~clicked THEN
    Result(1, got.status, got.branch, got.rendered, << >>, << >>, got.json, "none")
  ELSE
    LET done == toggle_user_status(toggle, isReqEx) IN
    IF "Success" \notin done.rendered THEN
      Result(2, done.status, done.branch, got.rendered \cup done.rendered,
             << >>, << >>, TRUE, done.escaped)
    ELSE IF canRerun THEN
      [Result(2, done.status, done.branch, got.rendered \cup done.rendered,
              << >>, << >>, TRUE, "none") EXCEPT !.rerun = TRUE]
    ELSE
      Result(2, done.status, done.branch, got.rendered \cup done.rendered,
             << >>, << >>, TRUE, "AttributeError")

UsersResponses ==
  Responses({200}, {"oops", "[]", "[user]", "[{}]", "{message}"}, {"oops", "[user]"})
ToggleResponses == Responses({200}, {"oops", "{}", "{message}"}, {"oops", "{message}"})

ViewRuns ==
  UNION { { Seen(ViewUsers(fetch, FALSE, NoResponse, isReqEx, TRUE), fetch) : isReqEx \in Versions(fetch) } :
          fetch \in UsersResponses }

\* the toggle button exists only in a render that lists the user
ToggleRuns ==
  UNION { UNION { { Seen(ViewUsers(fetch, TRUE, toggle, v[1], v[2]), toggle) :
                    v \in Versions(toggle) \X BOOLEAN } :
                  toggle \in ToggleResponses } :
          fetch \in { r \in UsersResponses : r.kind = "http" /\ r.status = 200
                                              /\ r.body = "[user]" } }

\* One render of pages/view_users_registration.py: on a user action, or as
\* the rerun the script asked for.
RenderViewUsers ==
  /\ page = "none"
  /\ \/ \E res \in ViewRuns :
          Render("view_users", IF rerun THEN "rerun" ELSE "open", << >>, res,
                 NoPanel, error_log)
     \/ /\ ~rerun
        /\ \E res \in ToggleRuns :
             Render("view_users", "toggle", << >>, res, NoPanel, error_log)

Next ==
  \/ Discard
  \/ RenderLogin
  \/ RenderLoginCopy
  \/ RenderRegister
  \/ RenderForgotPassword
  \/ RenderUpdateProfile
  \/ RenderUpload
  \/ RenderServiceRequest
  \/ RenderMyRequests
  \/ RenderViewUsers

Spec == Init /\ [][Next]_vars

\* The same session followed to a log of two entries, where an entry is
\* recorded after an earlier one.
MaxLogDeep == 2

DeepInit ==
  /\ token = NoToken
  /\ user = NoUser
  /\ error_log = << >>
  /\ page = "none"
  /\ act = "none"
  /\ authAtStart = FALSE
  /\ httpCalls = 0
  /\ status = 0
  /\ branch = "none"
  /\ rendered = {}
  /\ escaped = "none"
  /\ errors = << >>
  /\ logged = 0
  /\ jsonCalled = FALSE
  /\ panel = NoPanel
  /\ rerun = FALSE
  /\ answer = NoAnswer
  /\ sent = NoPayload
  /\ said = << >>
  /\ shown = NoJson
  /\ timeouts = << >>
  /\ wrote = {}
  /\ arg = << >>
  /\ out = NoOutput
  /\ cap = MaxLogDeep

DeepSpec == DeepInit /\ [][Next]_vars

\* ------------------------------------------- the validators on their own
\* The validators are functions of the text they are given; here each is
\* applied to texts of every length around its limits.
MaxRun == 11
MaxTail == 7

\* the text of n characters c
Rep(c, n) == [i \in 1..n |-> c]

FnChars == {"a", "A", "1", "I", " ", "!"}

\* a run of one character followed by a run of another
FnTexts ==
  { Rep(c[1], n[1]) \o Rep(c[2], n[2]) :
      c \in FnChars \X FnChars, n \in (0..MaxRun) \X (0..MaxTail) }

\* pages/update_profile.py, the password checks of the submit handler: three
\* tests in a row, each adding its own message, all skipped for an empty
\* password
ProfilePasswordErrors(password) ==
  When(password # << >> /\ Len(password) < 8, "Password must be at least 8 characters.")
  \o When(password # << >> /\ ~ \E i \in 1..Len(password) : password[i] \in Letters,
          "Password must include at least one letter.")
  \o When(password # << >> /\ ~ \E i \in 1..Len(password) : password[i] \in Digits,
          "Password must include at least one number.")

FnInit ==
  /\ token = NoToken
  /\ user = NoUser
  /\ error_log = << >>
  /\ page = "none"
  /\ act = "none"
  /\ authAtStart = FALSE
  /\ httpCalls = 0
  /\ status = 0
  /\ branch = "none"
  /\ rendered = {}
  /\ escaped = "none"
  /\ errors = << >>
  /\ logged = 0
  /\ jsonCalled = FALSE
  /\ panel = NoPanel
  /\ rerun = FALSE
  /\ answer = NoAnswer
  /\ sent = NoPayload
  /\ said = << >>
  /\ shown = NoJson
  /\ timeouts = << >>
  /\ wrote = {}
  /\ arg \in FnTexts
  /\ out = NoOutput
  /\ cap = MaxLog

\* ok, msg = password_policy(password)
ApplyPasswordPolicy ==
  /\ out' = [fn |-> "password_policy", value |-> password_policy(arg)]
  /\ UNCHANGED << pageVars, arg, cap >>

\* the password checks of the profile form
ApplyProfilePasswordChecks ==
  /\ out' = [fn |-> "profile_password_checks", value |-> ProfilePasswordErrors(arg)]
  /\ UNCHANGED << pageVars, arg, cap >>

\* valid_vin(vin)
ApplyValidVin ==
  /\ out' = [fn |-> "valid_vin", value |-> valid_vin(arg)]
  /\ UNCHANGED << pageVars, arg, cap >>

FnNext ==
  \/ ApplyPasswordPolicy
  \/ ApplyProfilePasswordChecks
  \/ ApplyValidVin

FnSpec == FnInit /\ [][FnNext]_vars
\* ===================================================== the checked properties
\* the success codes of the spec's status-code contract for the request of
\* the render on screen
SuccessCodes ==
  IF page = "login_copy" /\ act = "send" THEN {200, 201, 202} ELSE {200, 201}

\* the renders a form submit or a button click triggers
Submits == {"submit", "send", "upload", "toggle"}

\* C1 as stated: every response is handled in exactly one of the branches
\* Success, AuthFailure, ValidationFailure, ServerError, and every status that
\* is no success code, 400, 401 or 403 is handled as ServerError.
C1_FourBranches ==
  status # 0 =>
    /\ branch \in {"Success", "AuthFailure", "ValidationFailure", "ServerError"}
    /\ (status \notin SuccessCodes \cup {400, 401, 403} => branch = "ServerError")

\* C1 as amended: every response is handled in exactly one of the branches
\* Success, AuthFailure, ValidationFailure, Conflict, ServerError, and a call
\* that obtains no response in TransportFailure; Conflict is taken only by the
\* registration page and only for 409; every other status that is no success
\* code, 400, 401 or 403 is handled as ServerError.
C1_Classification ==
  /\ (branch = "TransportFailure") <=> (httpCalls > 0 /\ status = 0)
  /\ status # 0 =>
       branch \in {"Success", "AuthFailure", "ValidationFailure", "Conflict",
                   "ServerError"}
  /\ (branch = "Conflict") <=> (page = "register" /\ status = 409)
  /\ (status # 0 /\ status \notin SuccessCodes \cup {400, 401, 403}
        /\ ~(page = "register" /\ status = 409))
       => branch = "ServerError"

\* the registration page has received a 409 and reported the conflict
C1_Witness ==
  page = "register" /\ status = 409 /\ branch = "Conflict" /\ rendered = {"Conflict"}

ProtectedPages == {"upload", "service_request", "my_requests"}

\* C2: a render of a protected page that starts without a token halts at the
\* login guard: it issues no HTTP call and runs no validation, no handler and
\* no logging, whatever was entered or pressed.
C2_GuardHalts ==
  (page \in ProtectedPages /\ ~authAtStart) =>
    /\ httpCalls = 0
    /\ rendered = {"Redirected"}
    /\ errors = << >>
    /\ logged = 0
    /\ ~jsonCalled
    /\ ~panel.shown

\* the upload button was pressed on the upload page without a token
C2_Witness ==
  page = "upload" /\ act = "upload" /\ ~authAtStart /\ rendered = {"Redirected"}

\* C3: a submit with at least one failing client-side rule issues no HTTP
\* request in that render.
C3_NoRequestOnInvalidForm ==
  errors # << >> => httpCalls = 0 /\ status = 0 /\ branch = "none"

\* the registration form was submitted with several failing rules
C3_Witness ==
  page = "register" /\ act = "submit" /\ Len(errors) > 1 /\ httpCalls = 0

\* C4: a request whose outcome is not Success adds exactly one entry to the
\* error log, and one whose outcome is Success adds none.
C4_OneEntryPerFailure ==
  (act \in Submits /\ httpCalls > 0) =>
    IF rendered = {"Success"} THEN logged = 0 ELSE logged = 1

\* C5: no exception escapes the page on a submit, and the submit ends in
\* exactly one rendered outcome.
C5_NothingEscapes ==
  act \in Submits => escaped = "none" /\ Cardinality(rendered) = 1

\* C6: the debug panel lists at most five entries, exactly the most recent
\* ones still in the log, newest first.
C6_PanelShowsLog ==
  panel.shown =>
    /\ Len(panel.items) <= 5
    /\ panel.items = Reverse(LastFive(error_log))

\* C7 as stated: a render issues at most one outbound HTTP call, also on the
\* user-listing page when a toggle button was clicked.
C7_OneCallPerRender == httpCalls <= 1

\* C7 as amended: a render issues at most one outbound HTTP call, except the
\* render of the user-listing page in which a toggle button was clicked, which
\* issues two: the listing GET and the toggle POST.
C7_CallsPerRender ==
  /\ httpCalls <= 2
  /\ httpCalls = 2 => page = "view_users" /\ act = "toggle"

\* a toggle button was clicked on the user-listing page and both calls went out
C7_Witness ==
  page = "view_users" /\ act = "toggle" /\ httpCalls = 2

\* C8: a response with status 200 or 201 (or 202 on a password reset) is
\* handled as Success: the success outcome and no error is rendered, and
\* nothing is appended to the error log.
C8_SuccessCodesSucceed ==
  (page \in {"login", "login_copy", "register", "forgot_password", "update_profile",
             "upload", "service_request", "my_requests"}
     /\ status \in SuccessCodes) =>
    rendered = {"Success"} /\ logged = 0

\* C9: after a login submit whose outcome is Success the session holds a
\* token.
C9_TokenAfterLogin ==
  (page \in {"login", "login_copy"} /\ act = "submit" /\ rendered = {"Success"}) =>
    token # NoToken

\* C10: once the session holds a token, no step removes it.
C10_TokenStays == [][token # NoToken => token' # NoToken]_vars

\* with a token in the session, a login was refused by the backend
C10_Witness ==
  token # NoToken /\ authAtStart /\ page = "login" /\ rendered = {"AuthFailure"}

\* C11: every request the registration page sends carries a payload whose
\* password has at least 8 characters with a letter and a digit, whose phone
\* has 7 to 15 digits, whose fullName has at least 2 characters after
\* trimming, and whose role is customer or provider; the page sends nothing
\* else.
C11_RegisterPayload ==
  /\ (page = "register" /\ httpCalls > 0) => sent.kind = "register"
  /\ sent.kind = "register" =>
       /\ Len(sent.password) >= 8
       /\ \E i \in 1..Len(sent.password) : sent.password[i] \in Letters
       /\ \E i \in 1..Len(sent.password) : sent.password[i] \in Digits
       /\ Cardinality({i \in 1..Len(sent.phone) : sent.phone[i] \in Digits}) \in 7..15
       /\ Len(Strip(sent.fullName)) >= 2
       /\ sent.role \in {"customer", "provider"}

\* a form with padded name, email and phone went out trimmed
C11_Witness ==
  /\ page = "register" /\ httpCalls = 1 /\ sent.kind = "register"
  /\ sent.role = "provider" /\ sent.fullName = <<"a", "b">>
  /\ sent.email = <<"a", "@", "b", ".", "c">> /\ sent.phone = GoodPhone

\* the capital letters, and the characters a VIN may have: capital letters
\* other than I, O, Q, and digits
Capitals ==
  {"A", "B", "C", "D", "E", "F", "G", "H", "I", "J", "K", "L", "M", "N", "O", "P",
   "Q", "R", "S", "T", "U", "V", "W", "X", "Y", "Z"}
VinChars == (Capitals \ {"I", "O", "Q"}) \cup Digits

\* C12: every request the service request page sends carries a payload with
\* year in 1980..currentYear+1, vin empty or 11 to 17 characters that are
\* capitals other than I, O, Q or digits, symptoms of at least 10 characters,
\* make and location of at least 2, all as sent; the page sends nothing else.
C12_RequestPayload ==
  /\ (page = "service_request" /\ httpCalls > 0) => sent.kind = "service_request"
  /\ sent.kind = "service_request" =>
       /\ 1980 <= sent.year /\ sent.year <= ThisYear + 1
       /\ \/ sent.vin = << >>
          \/ /\ Len(sent.vin) \in 11..17
             /\ \A i \in 1..Len(sent.vin) : sent.vin[i] \in VinChars
       /\ Len(sent.symptoms) >= 10
       /\ Len(sent.make) >= 2
       /\ Len(sent.location) >= 2

\* a form with a padded lowercase VIN and next year's model went out
C12_Witness ==
  /\ page = "service_request" /\ httpCalls = 1 /\ sent.kind = "service_request"
  /\ sent.year = ThisYear + 1 /\ sent.vin = Upper(GoodVin) /\ sent.make = <<"a", "b">>

\* C13 as stated: a render parses the body of the response it obtained as
\* JSON only when the response declares a JSON content type, whatever the
\* status (stated of the renders that issue one call).
C13_JsonOnlyWhenDeclared ==
  (jsonCalled /\ httpCalls = 1) => (answer.kind = "http" /\ answer.ctype = JsonType)

\* C14 as stated: when the registration is answered 201 with a body that is
\* well-formed JSON holding user.id, the confirmation shows that id, whatever
\* other fields of user the body holds.
C14_IdSurfaces ==
  (page = "register" /\ answer.kind = "http" /\ answer.status = 201
     /\ Has(JsonOf(answer.body), "user") /\ Has(JsonOf(answer.body).f.user, "id"))
    => (shown.kind = "obj" /\ shown.f.id = JsonOf(answer.body).f.user.f.id)

\* the first rule of the password policy that s fails, in the order length,
\* letter, digit; "none" when it fails none
FirstFailing(s) ==
  IF Len(s) < 8 THEN "Password must be at least 8 characters."
  ELSE IF \A i \in 1..Len(s) : s[i] \notin Letters
    THEN "Password must include at least one letter."
  ELSE IF \A i \in 1..Len(s) : s[i] \notin Digits
    THEN "Password must include at least one number."
  ELSE "none"

Core(s) ==
  LET inked == {i \in 1..Len(s) : s[i] \notin Spaces} IN
  IF inked = {} THEN << >>
  ELSE LET lo == CHOOSE i \in inked : \A j \in inked : i <= j
           hi == CHOOSE i \in inked : \A j \in inked : j <= i
       IN [k \in 1..(hi - lo + 1) |-> UpperOf(s[lo + k - 1])]

\* C16 as stated: valid_vin(s) is true iff s is empty or blank, or consists
\* of 11 to 17 capitals other than I, O, Q and digits; a non-blank s with a
\* lowercase letter is invalid.
C16_UppercaseOnly ==
  out.fn = "valid_vin" =>
    (out.value <=>
       \/ \A i \in 1..Len(arg) : arg[i] \in Spaces
       \/ /\ Len(arg) \in 11..17
          /\ \A i \in 1..Len(arg) : arg[i] \in VinChars)

\* C16 as amended: valid_vin(s) is true iff s, with surrounding blanks
\* removed and letters put in capitals, is empty or consists of 11 to 17
\* capitals other than I, O, Q and digits.
C16_ValidVin ==
  out.fn = "valid_vin" =>
    (out.value <=>
       \/ Core(arg) = << >>
       \/ /\ Len(Core(arg)) \in 11..17
          /\ \A i \in 1..Len(Core(arg)) : Core(arg)[i] \in VinChars)

\* a VIN of lowercase letters and a digit was found valid
C16_Witness ==
  /\ out.fn = "valid_vin" /\ out.value
  /\ \E i \in 1..Len(arg) : arg[i] = "a"
  /\ \E i \in 1..Len(arg) : arg[i] = "1"

\* the pages whose script records a missing logo before its handler runs
LogoPages == {"login", "login_copy"}

\* C17: a script run either is the registration page's clear, which leaves
\* the log empty, or leaves every entry of the log in place and in order and
\* adds at its end one entry per record call; nothing else shortens or
\* rewrites the log.
C17_AppendOnly ==
  [][ \/ page' = "register" /\ act' = "clear" /\ error_log' = << >>
      \/ /\ Len(error_log') >= Len(error_log)
         /\ SubSeq(error_log', 1, Len(error_log)) = error_log
         /\ \/ Len(error_log') = Len(error_log) + logged'
            \/ /\ page' \in LogoPages
               /\ Len(error_log') = Len(error_log) + 1 + logged'
               /\ error_log'[Len(error_log) + 1].title = "Logo missing" ]_vars

\* a failed registration form was recorded after an earlier entry
C17_Witness ==
  /\ page = "register" /\ act = "submit" /\ logged = 1
  /\ Len(error_log) = 2
  /\ error_log[1].title = "Logo missing"
  /\ error_log[2].title = "Form validation failed"

\* C18 as stated: a submit with failing rules issues no request, records
\* exactly one entry whose details are the messages of all failing rules
\* joined by the delimiter, and renders those messages.
C18_AllMessagesRecorded ==
  errors # << >> =>
    /\ httpCalls = 0
    /\ logged = 1
    /\ error_log # << >>
    /\ error_log[Len(error_log)].details = Join(errors)
    /\ said = Join(errors)

\* C19 as stated: every call a render issues carries a timeout, which is
\* what bounds the render under a backend that never answers.
C19_EveryCallTimed ==
  \A i \in 1..Len(timeouts) : timeouts[i] # NoTimeout

\* C20: a script run writes the session's token or user only when it is a
\* login submit that ends in the Success branch; a failed login and every
\* run of every other page leave both as they were.
C20_OnlyLoginWrites ==
  [][ (token' # token \/ user' # user \/ wrote' \cap {"token", "user"} # {})
        => /\ page' \in {"login", "login_copy"}
           /\ act' = "submit"
           /\ branch' = "Success"
           /\ rendered' = {"Success"} ]_vars

\* a signed-in user pressed View Details: the request id was stored, token
\* and user are in place
C20_Witness ==
  /\ page = "my_requests" /\ act = "view" /\ wrote = {"selected_request_id"}
  /\ token = "t1" /\ user = Obj(FullUser)

\* C21 as stated: whenever the session holds both a token and a user, they
\* are the token and the user of one and the same login response.
C21_TokenUserPaired ==
  (token # NoToken /\ user # NoUser) =>
    \E r \in LoginResponses :
      /\ r.kind = "http"
      /\ Has(JsonOf(r.body), "token") /\ Has(JsonOf(r.body), "user")
      /\ token = JsonOf(r.body).f.token
      /\ user = JsonOf(r.body).f.user
====
